---- MODULE Spec2Model ----
(***************************************************************************)
(* The front-page retrieval engine of patent-first-page-downloader.py:     *)
(* RateLimiter.wait, the token cache, download_one and run_bulk.           *)
(*                                                                         *)
(* One task of the list is one position 1..total; distinct positions have  *)
(* distinct output paths (out_path_for is injective on distinct keys).     *)
(* A worker thread of the ThreadPoolExecutor is identified with the task   *)
(* it runs.  Time is counted in whole seconds; a time difference of        *)
(* min_interval or more is kept as min_interval.                           *)
(*                                                                         *)
(* The bulk flow of epo-bulk-downloader.py: head_content_length,           *)
(* is_fully_downloaded, download_stream and the loop of main() over the    *)
(* files of the deliveries.  It is a separate program: a specification     *)
(* runs one of the two and leaves the state of the other as it is.         *)
(***************************************************************************)
EXTENDS Integers, Sequences, FiniteSets, TLC

\* ------------------------------------------------------------ bounds
NTasks == 3          \* longest task list
MaxWorkers == 2      \* largest `workers` argument of run_bulk
MaxChunk == 2        \* largest `chunk_size` argument of run_bulk
MaxFaults == 1       \* GETs of a bulk run that end in 401, a retryable status or an error
NArchives == 2       \* files of the deliveries of the product (epo-bulk-downloader.py)
ArchiveSize == 2     \* size of an archive on the server, in chunks of CHUNK_SIZE bytes

\* ------------------------------------------------- program constants
MaxAttempts == 7     \* for attempt in range(1, 8)
MinBytes == 1024     \* os.path.getsize(out_path) > 1024
RATE_PER_SEC == 1
RETRY_STATUS == {429, 500, 502, 503, 504}
HeadRetries == 4     \* head_content_length(url, retries=4, ...)
MaxBackoff == 60     \* min(60, ...), in seconds

\* self.min_interval = 1.0 / max(rate_per_sec, 0.0001), in seconds
min_interval == 1 \div RATE_PER_SEC

Tasks == 1..NTasks
NoOne == 0           \* a lock nobody holds
None == 0            \* _token is None
NoFile == [exists |-> FALSE, pdf |-> FALSE, len |-> 0]
NoResponse == [kind |-> "none", status |-> 0, body |-> NoFile]
NoResult == [ok |-> FALSE, status |-> "none", http |-> 0, bytes |-> 0]
Unbounded == 0 - 1   \* no limit on the faults

VARIABLES
    total,        \* len(tasks), the input of run_bulk
    workers,      \* run_bulk's workers
    chunk_size,   \* run_bulk's chunk_size
    endpoint,     \* endpoint[t]: how the resource endpoint of task t answers
    faults,       \* GETs that may still end in a fault (Unbounded: any number)
    files,        \* files[t]: the file at out_path_for(t)
    log_exists,   \* os.path.exists(LOG_PATH)
    log,          \* the rows of LOG_PATH
    token,        \* _token
    issued,       \* access tokens issued by the auth endpoint so far
    token_lock,   \* holder of _token_lock
    rl_lock,      \* holder of rate_limiter.lock
    since,        \* now - self.last as read by the holder of rl_lock (saturated at min_interval)
    gap,          \* difference of the last two values assigned to rate_limiter.last (saturated)
    dispatched,   \* number of assignments to rate_limiter.last
    pc,           \* pc[t]: where the download_one call of task t is
    attempt,      \* attempt[t]: the loop variable of download_one
    http_status,  \* http_status[t]: the local of download_one
    last_msg,     \* last_msg[t]: the local of download_one, kept until the future is collected
    sleep_s,      \* sleep_s[t]: the sleep of download_one in progress, in seconds
    hdr,          \* hdr[t]: the token in headers["Authorization"]
    resp,         \* resp[t]: r, the last response session.get returned
    result,       \* result[t]: the tuple download_one returned
    gets,         \* gets[t]: session.get calls of the call
    slots,        \* slots[t]: rate_limiter.wait calls of the call that returned
    refreshes,    \* refreshes[t]: refresh_token calls of the call
    refreshed_at, \* refreshed_at[t]: value of gets[t] at the last refresh_token call
    before,       \* before[t]: files[t] when the download_one call started
    mpc,          \* where run_bulk (the main thread) is
    cur,          \* number of the chunk being processed (0: none yet)
    collected,    \* tasks whose future as_completed has yielded
    run,          \* 1: first run_bulk, 2: second run_bulk on the same list
    first,        \* first[t]: result[t] of the first run
    dest,         \* dest[f]: what is at out_path of archive f (epo-bulk-downloader.py)
    part,         \* part[f]: what is at tmp_path, out_path with the suffix .part
    bpc,          \* where main() of epo-bulk-downloader.py is
    halted,       \* main() was ended at bpc by an exception or the process was killed
    bcur,         \* position of fobj in the files of the deliveries (0: none yet)
    verifying,    \* the is_fully_downloaded call is that of line 202
    head_i,       \* failed HEAD requests of the last head_content_length call
    remote_size,  \* what the last head_content_length call returned
    body_len,     \* chunks in the body of the response download_stream iterates
    delivery,     \* d of main(): the delivery object of the product metadata
    delivery_id,  \* delivery_id of main()
    file_list,    \* files of main(): what find_files_list(d) returned
    fidx,         \* position of fobj in file_list (0: none yet)
    fobj,         \* fobj of main()
    file_id,      \* file_id of main()
    name,         \* name of main()
    mstep,        \* where main() is in the metadata of the delivery
    requested     \* the (delivery_id, file_id, name) for which requests were made

cfgvars == <<total, workers, chunk_size, endpoint>>
envvars == <<faults, files, log_exists, log>>
tokvars == <<token, issued, token_lock>>
rlvars == <<rl_lock, since, gap, dispatched>>
taskvars == <<pc, attempt, http_status, last_msg, sleep_s, hdr, resp, result>>
ghostvars == <<gets, slots, refreshes, refreshed_at, before>>
mainvars == <<mpc, cur, collected, run, first>>
frontvars == <<cfgvars, envvars, tokvars, rlvars, taskvars, ghostvars, mainvars>>
metavars == <<delivery, delivery_id, file_list, fidx, fobj, file_id, name, mstep, requested>>
bulkvars == <<dest, part, bpc, halted, bcur, verifying, head_i, remote_size, body_len,
              metavars>>
vars == <<frontvars, bulkvars>>

\* ------------------------------------------------------ environment
\* Response bodies: r.content.startswith(b"%PDF") and len(r.content).
Bodies == [exists : {TRUE}, pdf : BOOLEAN, len : {MinBytes, MinBytes + 1}]

\* What one session.get can end in: a response, or a requests.RequestException.
HttpStatuses == {200, 401, 404, 503}
Responses ==
    [kind : {"resp"}, status : {200}, body : Bodies]
    \cup [kind : {"resp"}, status : HttpStatuses \ {200}, body : {NoFile}]
NetError == [kind |-> "exc", status |-> 0, body |-> NoFile]
Outcomes == Responses \cup {NetError}

Profiles == {"any", "always503", "401then200", "only401", "document"}

\* The document of a task, as a response body: a PDF of more than MinBytes bytes.
Document == [exists |-> TRUE, pdf |-> TRUE, len |-> MinBytes + 1]

\* The outcomes the endpoint of profile p may give to the n-th GET of a task.
Answers(p, n) ==
    CASE p = "always503" -> {o \in Responses : o.status = 503}
      [] p = "only401" -> {o \in Responses : o.status = 401}
      [] p = "401then200" ->
            IF n = 1 THEN {o \in Responses : o.status = 401}
            ELSE {o \in Responses : o.status = 200 /\ o.body.pdf}
      [] p = "document" -> {o \in Outcomes : o.status = 200 => o.body = Document}
      [] OTHER -> Outcomes

\* A fault: an outcome of a GET after which download_one goes on to another attempt.
IsFault(o) == o.kind = "exc" \/ o.status = 401 \/ o.status \in RETRY_STATUS

CanFault == faults # 0
Spend == IF faults = Unbounded THEN Unbounded ELSE faults - 1

\* ------------------------------------------------------ download_one
Running(t) == pc[t] \notin {"new", "queued", "done", "raised"}

\* return task, ok, status_str, http_status, bytes_written, out_path
Return(t, ok, status_str, http, nbytes) ==
    /\ result' = [result EXCEPT ![t] =
            [ok |-> ok, status |-> status_str, http |-> http, bytes |-> nbytes]]
    /\ pc' = [pc EXCEPT ![t] = "done"]

\* Continue with the loop bound off by one: range(1, 9).
ContinueBug(t) ==
    IF attempt[t] < MaxAttempts + 1
    THEN /\ attempt' = [attempt EXCEPT ![t] = @ + 1]
         /\ pc' = [pc EXCEPT ![t] = "wait"]
         /\ UNCHANGED result
    ELSE /\ Return(t, FALSE, "failed", http_status[t], 0)
         /\ UNCHANGED attempt

\* `continue`, or the end of the except block: the next iteration of
\* `for attempt in range(1, 8)`, or the return after the loop.
Continue(t) ==
    IF attempt[t] < MaxAttempts
    THEN /\ attempt' = [attempt EXCEPT ![t] = @ + 1]
         /\ pc' = [pc EXCEPT ![t] = "wait"]
         /\ UNCHANGED result
    ELSE /\ Return(t, FALSE, "failed", http_status[t], 0)
         /\ UNCHANGED attempt

\* Start with no limit on the threads of the pool.
StartBug(t) ==
    /\ pc[t] = "queued"
    /\ \A u \in Tasks : pc[u] = "queued" => t <= u
    /\ pc' = [pc EXCEPT ![t] = "precheck"]
    /\ before' = [before EXCEPT ![t] = files[t]]
    /\ UNCHANGED <<bulkvars, cfgvars, envvars, tokvars, rlvars, attempt, http_status, last_msg, sleep_s, hdr, resp,
                   result, gets, slots, refreshes, refreshed_at, mainvars>>

\* A worker thread of the pool takes the oldest queued work item.
Start(t) ==
    /\ pc[t] = "queued"
    /\ \A u \in Tasks : pc[u] = "queued" => t <= u
    /\ Cardinality({u \in Tasks : Running(u)}) < workers
    /\ pc' = [pc EXCEPT ![t] = "precheck"]
    /\ before' = [before EXCEPT ![t] = files[t]]
    /\ UNCHANGED <<bulkvars, cfgvars, envvars, tokvars, rlvars, attempt, http_status, last_msg, sleep_s, hdr, resp,
                   result, gets, slots, refreshes, refreshed_at, mainvars>>

\* Complete with the threshold one byte higher.
CompleteBug(f) == f.exists /\ f.len > MinBytes + 1

\* if os.path.exists(out_path) and os.path.getsize(out_path) > 1024
Complete(f) == f.exists /\ f.len > MinBytes

PreCheck(t) ==
    /\ pc[t] = "precheck"
    /\ IF Complete(files[t])
       THEN Return(t, TRUE, "skipped", 200, files[t].len)
       ELSE /\ pc' = [pc EXCEPT ![t] = "tok"]
            /\ UNCHANGED result
    /\ UNCHANGED <<bulkvars, cfgvars, envvars, tokvars, rlvars, attempt, http_status, last_msg, sleep_s, hdr, resp,
                   ghostvars, mainvars>>

\* headers = {"Authorization": f"Bearer {get_token_cached()}"} with _token set:
\* the lock is taken, _token read and the lock released.
TokCached(t) ==
    /\ pc[t] = "tok"
    /\ token_lock = NoOne
    /\ token # None
    /\ hdr' = [hdr EXCEPT ![t] = token]
    /\ pc' = [pc EXCEPT ![t] = "wait"]
    /\ UNCHANGED <<bulkvars, cfgvars, envvars, tokvars, rlvars, attempt, http_status, last_msg, sleep_s, resp, result,
                   ghostvars, mainvars>>

\* TokAcquire without `if _token is None`: a fetch at every call.
TokAcquireAlways(t) ==
    /\ pc[t] = "tok"
    /\ token_lock = NoOne
    /\ token_lock' = t
    /\ pc' = [pc EXCEPT ![t] = "tok_fetch"]
    /\ UNCHANGED <<bulkvars, cfgvars, envvars, token, issued, rlvars, attempt, http_status,
                   last_msg, sleep_s, hdr, resp, result, ghostvars, mainvars>>

\* TokAcquire that does not wait for _token_lock.
TokAcquireBug(t) ==
    /\ pc[t] = "tok"
    /\ token = None
    /\ token_lock' = t
    /\ pc' = [pc EXCEPT ![t] = "tok_fetch"]
    /\ UNCHANGED <<bulkvars, cfgvars, envvars, token, issued, rlvars, attempt, http_status, last_msg, sleep_s, hdr, resp,
                   result, ghostvars, mainvars>>

\* get_token_cached() with _token None: the POST is made holding _token_lock.
TokAcquire(t) ==
    /\ pc[t] = "tok"
    /\ token_lock = NoOne
    /\ token = None
    /\ token_lock' = t
    /\ pc' = [pc EXCEPT ![t] = "tok_fetch"]
    /\ UNCHANGED <<bulkvars, cfgvars, envvars, token, issued, rlvars, attempt, http_status, last_msg, sleep_s, hdr, resp,
                   result, ghostvars, mainvars>>

\* _get_token_raw() returned r.json()["access_token"]
TokFetchOk(t) ==
    /\ pc[t] = "tok_fetch"
    /\ issued' = issued + 1
    /\ token' = issued + 1
    /\ token_lock' = NoOne
    /\ hdr' = [hdr EXCEPT ![t] = issued + 1]
    /\ pc' = [pc EXCEPT ![t] = "wait"]
    /\ UNCHANGED <<bulkvars, cfgvars, envvars, rlvars, attempt, http_status, last_msg, sleep_s, resp, result, ghostvars,
                   mainvars>>

\* TokFetchFail that does not release _token_lock.
TokFetchFailBug(t) ==
    /\ pc[t] = "tok_fetch"
    /\ pc' = [pc EXCEPT ![t] = "raised"]
    /\ UNCHANGED <<bulkvars, cfgvars, envvars, tokvars, rlvars, attempt,
                   http_status, last_msg, sleep_s, hdr, resp, result, ghostvars, mainvars>>

\* _get_token_raw() raised (raise_for_status, or a network error): line 136 is
\* outside the try block, so the exception leaves download_one.
TokFetchFail(t) ==
    /\ pc[t] = "tok_fetch"
    /\ token_lock' = NoOne
    /\ pc' = [pc EXCEPT ![t] = "raised"]
    /\ UNCHANGED <<bulkvars, cfgvars, envvars, token, issued, rlvars, attempt,
                   http_status, last_msg, sleep_s, hdr, resp, result, ghostvars, mainvars>>

\* ------------------------------------------------- RateLimiter.wait
\* WaitFor one second short.
WaitForBug(e) == min_interval - e - 1

\* wait_for = self.min_interval - (now - self.last)
WaitFor(e) == min_interval - e

\* if wait_for > 0: time.sleep(wait_for) -- the time slept, at least wait_for
Slept(wait_for) == IF wait_for > 0 THEN wait_for ELSE 0

Saturated(d) == IF d < min_interval THEN d ELSE min_interval

\* with self.lock: now = time.time(), read e = now - self.last after the last
\* assignment to self.last; before the first one self.last = 0.0 and now is a
\* time since the epoch.
WaitEnter(t, e) ==
    /\ pc[t] = "wait"
    /\ rl_lock = NoOne
    /\ dispatched = 0 => e = min_interval
    /\ rl_lock' = t
    /\ since' = e
    /\ pc' = [pc EXCEPT ![t] = "pace"]
    /\ UNCHANGED <<bulkvars, cfgvars, envvars, tokvars, gap, dispatched, attempt,
                   http_status, last_msg, sleep_s, hdr, resp, result, ghostvars, mainvars>>

\* time.sleep(wait_for) is over: self.last = time.time(); the lock is released
\* and wait() returns
WaitExit(t) ==
    /\ pc[t] = "pace"
    /\ rl_lock = t
    /\ gap' = Saturated(since + Slept(WaitFor(since)))
    /\ since' = 0
    /\ dispatched' = IF dispatched < 2 THEN dispatched + 1 ELSE dispatched
    /\ rl_lock' = NoOne
    /\ slots' = [slots EXCEPT ![t] = @ + 1]
    /\ pc' = [pc EXCEPT ![t] = "get"]
    /\ UNCHANGED <<bulkvars, cfgvars, envvars, tokvars, attempt, http_status, last_msg, sleep_s, hdr, resp,
                   result, gets, refreshes, refreshed_at, before, mainvars>>

\* ------------------------------------------- download_one, the attempt
\* Classify without the 401 branch.
ClassifyNoAuth(o) ==
    IF o.kind = "exc" THEN "NetworkError"
    ELSE IF o.status \in RETRY_STATUS THEN "Retryable"
    ELSE IF o.status # 200 THEN "FatalHTTP"
    ELSE IF ~o.body.pdf THEN "FatalContent"
    ELSE "Success"

\* Classify without the check of the PDF signature.
ClassifyNoSig(o) ==
    IF o.kind = "exc" THEN "NetworkError"
    ELSE IF o.status = 401 THEN "AuthExpired"
    ELSE IF o.status \in RETRY_STATUS THEN "Retryable"
    ELSE IF o.status # 200 THEN "FatalHTTP"
    ELSE "Success"

\* Classify that takes every status other than 200 and 401 as retryable.
ClassifyNoFatal(o) ==
    IF o.kind = "exc" THEN "NetworkError"
    ELSE IF o.status = 401 THEN "AuthExpired"
    ELSE IF o.status # 200 THEN "Retryable"
    ELSE IF ~o.body.pdf THEN "FatalContent"
    ELSE "Success"

\* The branch of the try block an outcome of session.get takes.
Classify(o) ==
    IF o.kind = "exc" THEN "NetworkError"
    ELSE IF o.status = 401 THEN "AuthExpired"
    ELSE IF o.status \in RETRY_STATUS THEN "Retryable"
    ELSE IF o.status # 200 THEN "FatalHTTP"
    ELSE IF ~o.body.pdf THEN "FatalContent"
    ELSE "Success"

\* ------------------------------------------- Retry-After and backoff
\* A Retry-After header: r.headers.get("Retry-After") is None, or a string,
\* kept as the sequence of its characters.
NoRetryAfter == [present |-> FALSE, text |-> <<>>]
RetryAfter(text) == [present |-> TRUE, text |-> text]
RetryAfters ==
    {NoRetryAfter, RetryAfter(<<"0">>), RetryAfter(<<"9", "0">>),
     RetryAfter(<<"1", ".", "5">>)}

\* The Retry-After headers the endpoint of profile p sends with a retryable status.
RetryAfterOf(p) == IF p = "any" THEN RetryAfters ELSE {NoRetryAfter}

DigitValue(c) ==
    CASE c = "0" -> 0 [] c = "1" -> 1 [] c = "2" -> 2 [] c = "3" -> 3 [] c = "4" -> 4
      [] c = "5" -> 5 [] c = "6" -> 6 [] c = "7" -> 7 [] c = "8" -> 8 [] c = "9" -> 9

\* ra.isdigit(): not empty, and decimal digits only
isdigit(text) ==
    /\ Len(text) > 0
    /\ \A i \in 1..Len(text) : text[i] \in {"0", "1", "2", "3", "4", "5", "6", "7", "8", "9"}

\* int(ra) of a string of decimal digits
RECURSIVE int(_)
int(text) ==
    IF Len(text) = 0 THEN 0
    ELSE 10 * int(SubSeq(text, 1, Len(text) - 1)) + DigitValue(text[Len(text)])

RECURSIVE Pow2(_)
Pow2(n) == IF n = 0 THEN 1 ELSE 2 * Pow2(n - 1)

\* A sleep of d seconds with lo <= d < sup, or of lo seconds when sup = lo.
Span(lo, sup) == [lo |-> lo, sup |-> sup]

Min(a, b) == IF a < b THEN a ELSE b

\* Backoff with the exponent one too high: 2 ** attempt.
BackoffBug(k) == Span(Min(MaxBackoff, Pow2(k)), Min(MaxBackoff, Pow2(k) + 1))

\* sleep_s = min(60, (2 ** (attempt - 1)) + random.random()), where
\* random.random() is any value x with 0 <= x < 1
Backoff(k) == Span(Min(MaxBackoff, Pow2(k - 1)), Min(MaxBackoff, Pow2(k - 1) + 1))

\* if ra and ra.isdigit(): sleep_s = int(ra) else: the backoff
RetrySleep(ra, k) ==
    IF ra.present /\ Len(ra.text) > 0 /\ isdigit(ra.text)
    THEN Span(int(ra.text), int(ra.text))
    ELSE Backoff(k)

\* last_msg: which of the messages of download_one, and the status it names
Msg(kind, status) == [kind |-> kind, status |-> status]
NoMsg == Msg("", 0)

\* sleep_s, with the Retry-After header it was computed from
Sleep(ra, span) == [ra |-> ra, span |-> span]
NoSleep == Sleep(NoRetryAfter, Span(0, 0))

\* Written that stops after the first MinBytes bytes.
WrittenBug(o) == [o.body EXCEPT !.len = MinBytes]

\* with open(out_path, "wb") as f: f.write(r.content) -- the file it leaves
Written(o) == o.body

\* r = session.get(url, headers=headers, timeout=90) and the branch taken on r
Get(t, o) ==
    /\ pc[t] = "get"
    /\ o \in Answers(endpoint[t], gets[t] + 1)
    /\ IsFault(o) => CanFault
    /\ faults' = IF IsFault(o) THEN Spend ELSE faults
    /\ gets' = [gets EXCEPT ![t] = @ + 1]
    /\ http_status' = [http_status EXCEPT ![t] = IF o.kind = "exc" THEN @ ELSE o.status]
    /\ resp' = [resp EXCEPT ![t] = IF o.kind = "exc" THEN @ ELSE o]
    /\ LET c == Classify(o) IN
        CASE c = "NetworkError" ->
                /\ sleep_s' = [sleep_s EXCEPT ![t] = Sleep(NoRetryAfter, Backoff(attempt[t]))]
                /\ last_msg' = [last_msg EXCEPT ![t] = Msg("request error", 0)]
                /\ pc' = [pc EXCEPT ![t] = "sleep"]
                /\ UNCHANGED <<result, files>>
          [] c = "AuthExpired" ->
                /\ pc' = [pc EXCEPT ![t] = "refresh"]
                /\ UNCHANGED <<result, files, last_msg, sleep_s>>
          [] c = "Retryable" ->
                /\ \E ra \in RetryAfterOf(endpoint[t]) :
                    sleep_s' = [sleep_s EXCEPT ![t] = Sleep(ra, RetrySleep(ra, attempt[t]))]
                /\ last_msg' = [last_msg EXCEPT ![t] = Msg("retryable HTTP", o.status)]
                /\ pc' = [pc EXCEPT ![t] = "sleep"]
                /\ UNCHANGED <<result, files>>
          [] c = "FatalHTTP" ->
                /\ last_msg' = [last_msg EXCEPT ![t] = Msg("HTTP", o.status)]
                /\ Return(t, FALSE, "failed", o.status, 0)
                /\ UNCHANGED <<files, sleep_s>>
          [] c = "FatalContent" ->
                /\ last_msg' = [last_msg EXCEPT ![t] = Msg("not a PDF", 0)]
                /\ Return(t, FALSE, "failed", o.status, 0)
                /\ UNCHANGED <<files, sleep_s>>
          [] OTHER ->
                /\ files' = [files EXCEPT ![t] = Written(o)]
                /\ Return(t, TRUE, "downloaded", o.status, o.body.len)
                /\ UNCHANGED <<last_msg, sleep_s>>
    /\ UNCHANGED <<bulkvars, cfgvars, log_exists, log, tokvars, rlvars, attempt, hdr, slots,
                   refreshes, refreshed_at, before, mainvars>>

\* refresh_token(): with _token_lock, the POST begins
RefreshAcquire(t) ==
    /\ pc[t] = "refresh"
    /\ token_lock = NoOne
    /\ token_lock' = t
    /\ refreshes' = [refreshes EXCEPT ![t] = @ + 1]
    /\ refreshed_at' = [refreshed_at EXCEPT ![t] = gets[t]]
    /\ pc' = [pc EXCEPT ![t] = "refresh_fetch"]
    /\ UNCHANGED <<bulkvars, cfgvars, envvars, token, issued, rlvars, attempt, http_status, last_msg, sleep_s, hdr, resp,
                   result, gets, slots, before, mainvars>>

\* _token = _get_token_raw(), and the lock is released
RefreshOk(t) ==
    /\ pc[t] = "refresh_fetch"
    /\ issued' = issued + 1
    /\ token' = issued + 1
    /\ token_lock' = NoOne
    /\ pc' = [pc EXCEPT ![t] = "retok"]
    /\ UNCHANGED <<bulkvars, cfgvars, envvars, rlvars, attempt, http_status, last_msg, sleep_s, hdr, resp, result,
                   ghostvars, mainvars>>

\* RefreshFail that leaves no credential behind: _token = None.
RefreshFailBug(t) ==
    /\ pc[t] = "refresh_fetch"
    /\ token_lock' = NoOne
    /\ token' = None
    /\ sleep_s' = [sleep_s EXCEPT ![t] = Sleep(NoRetryAfter, Backoff(attempt[t]))]
    /\ last_msg' = [last_msg EXCEPT ![t] = Msg("request error", 0)]
    /\ pc' = [pc EXCEPT ![t] = "sleep"]
    /\ UNCHANGED <<bulkvars, cfgvars, envvars, issued, rlvars, attempt,
                   http_status, hdr, resp, result, ghostvars, mainvars>>

\* _get_token_raw() raised inside refresh_token(): the lock is released and the
\* requests.RequestException is caught by the except block of the attempt.
RefreshFail(t) ==
    /\ pc[t] = "refresh_fetch"
    /\ token_lock' = NoOne
    /\ sleep_s' = [sleep_s EXCEPT ![t] = Sleep(NoRetryAfter, Backoff(attempt[t]))]
    /\ last_msg' = [last_msg EXCEPT ![t] = Msg("request error", 0)]
    /\ pc' = [pc EXCEPT ![t] = "sleep"]
    /\ UNCHANGED <<bulkvars, cfgvars, envvars, token, issued, rlvars, attempt,
                   http_status, hdr, resp, result, ghostvars, mainvars>>

\* ReTok that repeats the attempt instead of going on to the next one.
ReTokBug(t) ==
    /\ pc[t] = "retok"
    /\ token_lock = NoOne
    /\ token # None
    /\ hdr' = [hdr EXCEPT ![t] = token]
    /\ last_msg' = [last_msg EXCEPT ![t] = Msg("token refreshed", 0)]
    /\ pc' = [pc EXCEPT ![t] = "wait"]
    /\ UNCHANGED <<bulkvars, cfgvars, envvars, tokvars, rlvars, attempt, http_status, sleep_s,
                   resp, result, ghostvars, mainvars>>

\* headers["Authorization"] = f"Bearer {get_token_cached()}"
\* last_msg = "token refreshed"; continue
\* (_token is set here: refresh_token has just installed one and nothing unsets it)
ReTok(t) ==
    /\ pc[t] = "retok"
    /\ token_lock = NoOne
    /\ token # None
    /\ hdr' = [hdr EXCEPT ![t] = token]
    /\ last_msg' = [last_msg EXCEPT ![t] = Msg("token refreshed", 0)]
    /\ Continue(t)
    /\ UNCHANGED <<bulkvars, cfgvars, envvars, tokvars, rlvars, http_status, sleep_s, resp,
                   ghostvars, mainvars>>

\* Wake that waits until no other thread is inside a GET.
WakeBug(t) ==
    /\ pc[t] = "sleep"
    /\ \A u \in Tasks \ {t} : pc[u] # "get"
    /\ sleep_s' = [sleep_s EXCEPT ![t] = NoSleep]
    /\ Continue(t)
    /\ UNCHANGED <<bulkvars, cfgvars, envvars, tokvars, rlvars, http_status, last_msg, hdr, resp,
                   ghostvars, mainvars>>

\* time.sleep(sleep_s) is over (sleep_s is not read again); continue
Wake(t) ==
    /\ pc[t] = "sleep"
    /\ sleep_s' = [sleep_s EXCEPT ![t] = NoSleep]
    /\ Continue(t)
    /\ UNCHANGED <<bulkvars, cfgvars, envvars, tokvars, rlvars, http_status, last_msg, hdr, resp,
                   ghostvars, mainvars>>

\* ---------------------------------------------------------- run_bulk
\* chunked(it, size): for i in range(0, len(it), size): yield it[i:i+size]
\* The k-th chunk yielded (k = 1, 2, ...) as the set of its positions.
chunked(n, size, k) == {i \in 1..n : (k - 1) * size < i /\ i <= k * size}
NChunks(n, size) == (n + size - 1) \div size
ChunkOf(t) == ((t - 1) \div chunk_size) + 1

Header == [task |-> 0, status |-> "status", http |-> 0, bytes |-> 0, msg |-> "message"]
OldRow == [task |-> 0, status |-> "failed", http |-> 404, bytes |-> 0, msg |-> "error"]

\* init_log that opens the log with mode "w" whether it exists or not.
init_logBug ==
    /\ mpc = "init"
    /\ log' = <<Header>>
    /\ log_exists' = TRUE
    /\ mpc' = "chunks"
    /\ UNCHANGED <<bulkvars, cfgvars, faults, files, tokvars, rlvars, taskvars, ghostvars, cur,
                   collected, run, first>>

\* init_log(LOG_PATH); os.makedirs(OUT_DIR, exist_ok=True)
init_log ==
    /\ mpc = "init"
    /\ log' = IF log_exists THEN log ELSE <<Header>>
    /\ log_exists' = TRUE
    /\ mpc' = "chunks"
    /\ UNCHANGED <<bulkvars, cfgvars, faults, files, tokvars, rlvars, taskvars, ghostvars, cur,
                   collected, run, first>>

\* for chunk in chunked(tasks, chunk_size): with ThreadPoolExecutor(...) as ex:
\*     futures = [ex.submit(download_one, t, session) for t in chunk]
Submit ==
    /\ mpc = "chunks"
    /\ cur < NChunks(total, chunk_size)
    /\ cur' = cur + 1
    /\ pc' = [t \in Tasks |->
                IF t \in chunked(total, chunk_size, cur + 1) THEN "queued" ELSE pc[t]]
    /\ mpc' = "collect"
    /\ UNCHANGED <<bulkvars, cfgvars, envvars, tokvars, rlvars, attempt, http_status, last_msg, sleep_s, hdr, resp,
                   result, ghostvars, collected, run, first>>

\* append_log([ts, country, pub_number, kind, status_str, http_status, nbytes, msg, out_path])
append_log(t) ==
    log' = Append(log, [task |-> t, status |-> result[t].status, http |-> result[t].http,
                        bytes |-> result[t].bytes,
                        msg |-> IF result[t].ok THEN "ok" ELSE "error"])

\* for fut in as_completed(futures): fut.result() returns the tuple; the row is
\* appended (last_msg of the call is not part of the tuple, and is gone)
Collect(t) ==
    /\ mpc = "collect"
    /\ t \in chunked(total, chunk_size, cur) \ collected
    /\ pc[t] = "done"
    /\ append_log(t)
    /\ collected' = collected \cup {t}
    /\ last_msg' = [last_msg EXCEPT ![t] = NoMsg]
    /\ UNCHANGED <<bulkvars, cfgvars, faults, files, log_exists, tokvars, rlvars, pc, attempt,
                   http_status, sleep_s, hdr, resp, result, ghostvars, mpc, cur, run, first>>

\* fut.result() re-raises the exception of download_one: it leaves the for loop
\* and the with block, whose __exit__ is ex.shutdown(wait=True).
CollectRaise(t) ==
    /\ mpc = "collect"
    /\ t \in chunked(total, chunk_size, cur) \ collected
    /\ pc[t] = "raised"
    /\ mpc' = "shutdown"
    /\ collected' = collected \cup {t}
    /\ UNCHANGED <<bulkvars, cfgvars, envvars, tokvars, rlvars, taskvars, ghostvars, cur, run,
                   first>>

\* shutdown(wait=True) has joined the workers (the queued work items are run
\* too); the exception leaves run_bulk.
Shutdown ==
    /\ mpc = "shutdown"
    /\ \A t \in chunked(total, chunk_size, cur) : pc[t] \in {"done", "raised"}
    /\ mpc' = "crashed"
    /\ UNCHANGED <<bulkvars, cfgvars, envvars, tokvars, rlvars, taskvars, ghostvars, cur,
                   collected, run, first>>

\* ChunkEnd that goes on as soon as one future of the chunk was collected.
ChunkEndBug ==
    /\ mpc = "collect"
    /\ chunked(total, chunk_size, cur) \cap collected # {}
    /\ mpc' = "chunks"
    /\ UNCHANGED <<bulkvars, cfgvars, envvars, tokvars, rlvars, taskvars, ghostvars, cur,
                   collected, run, first>>

\* as_completed is exhausted; the with block of the executor ends
ChunkEnd ==
    /\ mpc = "collect"
    /\ chunked(total, chunk_size, cur) \subseteq collected
    /\ mpc' = "chunks"
    /\ UNCHANGED <<bulkvars, cfgvars, envvars, tokvars, rlvars, taskvars, ghostvars, cur,
                   collected, run, first>>

\* the for loop over the chunks ends: pbar.close(); print("Done. ...")
Finish ==
    /\ mpc = "chunks"
    /\ cur = NChunks(total, chunk_size)
    /\ mpc' = "done"
    /\ UNCHANGED <<bulkvars, cfgvars, envvars, tokvars, rlvars, taskvars, ghostvars, cur,
                   collected, run, first>>

\* ------------------------------------------------------ a second run
\* run_bulk is run again on the same list, in a new process: the files and the
\* log are those the first run left, the module state is fresh.
Rerun ==
    /\ mpc \in {"done", "crashed"}
    /\ run = 1
    /\ run' = 2
    /\ first' = result
    /\ mpc' = "init"
    /\ cur' = 0
    /\ collected' = {}
    /\ token' = None
    /\ issued' = 0
    /\ token_lock' = NoOne
    /\ rl_lock' = NoOne
    /\ since' = 0
    /\ gap' = min_interval
    /\ dispatched' = 0
    /\ pc' = [t \in Tasks |-> "new"]
    /\ attempt' = [t \in Tasks |-> 1]
    /\ http_status' = [t \in Tasks |-> 0]
    /\ last_msg' = [t \in Tasks |-> NoMsg]
    /\ sleep_s' = [t \in Tasks |-> NoSleep]
    /\ hdr' = [t \in Tasks |-> None]
    /\ resp' = [t \in Tasks |-> NoResponse]
    /\ result' = [t \in Tasks |-> NoResult]
    /\ gets' = [t \in Tasks |-> 0]
    /\ slots' = [t \in Tasks |-> 0]
    /\ refreshes' = [t \in Tasks |-> 0]
    /\ refreshed_at' = [t \in Tasks |-> 0]
    /\ before' = files
    /\ UNCHANGED <<bulkvars, cfgvars, envvars>>

\* ------------------------------------------ epo-bulk-downloader.py
\* The files of the deliveries, in the order main() visits them; distinct
\* positions have distinct names.  Sizes are counted in chunks.
Archives == 1..NArchives
Absent == [kind |-> "none", size |-> 0]
Directory == [kind |-> "dir", size |-> 0]
RegularFile(n) == [kind |-> "file", size |-> n]
NoLength == 0 - 1    \* head_content_length returned None
NotAsked == 0 - 2    \* head_content_length was not called

\* is_fully_downloaded that takes a file it cannot verify as complete.
is_fully_downloadedBug(f, remote) ==
    /\ f.kind = "file"
    /\ f.size > 0
    /\ remote # NoLength => f.size = remote

\* is_fully_downloaded(path, download_url), with `remote` the value that
\* head_content_length(download_url) returns
is_fully_downloaded(f, remote) ==
    /\ f.kind = "file"
    /\ f.size > 0
    /\ remote # NoLength
    /\ f.size = remote

\* Judged that takes a failed verification as a warning and goes on.
JudgedBug(v) ==
    IF verifying
    THEN /\ bpc' = "verified"
         /\ UNCHANGED halted
    ELSE /\ bpc' = IF v THEN "skip" ELSE "stale"
         /\ UNCHANGED halted

\* is_fully_downloaded returns v to main(): line 188 (skip, or go on to the
\* download) or line 202 (go on, or raise RuntimeError)
Judged(v) ==
    IF verifying
    THEN /\ bpc' = IF v THEN "verified" ELSE "unverified"
         /\ halted' = ~v
    ELSE /\ bpc' = IF v THEN "skip" ELSE "stale"
         /\ UNCHANGED halted

\* for fobj in files: ... is_fully_downloaded(out_path, url) is called; after
\* the last file main() returns
NextFile ==
    /\ ~halted
    /\ bpc \in {"loop", "skip", "verified"}
    /\ IF bcur < NArchives
       THEN /\ bcur' = bcur + 1
            /\ bpc' = "check"
       ELSE /\ bpc' = "done"
            /\ UNCHANGED bcur
    /\ verifying' = FALSE
    /\ head_i' = 0
    /\ remote_size' = NotAsked
    /\ UNCHANGED <<frontvars, metavars, dest, part, halted, body_len>>

\* is_fully_downloaded, lines 109-116: the local checks, then the HEAD probe
CheckLocal ==
    /\ ~halted
    /\ bpc = "check"
    /\ head_i' = 0
    /\ remote_size' = NotAsked
    /\ IF dest[bcur].kind = "file" /\ dest[bcur].size > 0
       THEN /\ bpc' = "head"
            /\ UNCHANGED halted
       ELSE Judged(FALSE)
    /\ UNCHANGED <<frontvars, metavars, dest, part, bcur, verifying, body_len>>

\* head_content_length: requests.head, raise_for_status or int(cl) raised; the
\* sleep follows, and after the last of the `retries` attempts `return None`
HeadError ==
    /\ ~halted
    /\ bpc = "head"
    /\ head_i' = head_i + 1
    /\ IF head_i + 1 < HeadRetries
       THEN UNCHANGED <<bpc, halted, remote_size>>
       ELSE /\ remote_size' = NoLength
            /\ Judged(is_fully_downloaded(dest[bcur], NoLength))
    /\ UNCHANGED <<frontvars, metavars, dest, part, bcur, verifying, body_len>>

\* head_content_length: return int(cl) if cl is not None else None
HeadAnswer(cl) ==
    /\ ~halted
    /\ bpc = "head"
    /\ remote_size' = cl
    /\ Judged(is_fully_downloaded(dest[bcur], cl))
    /\ UNCHANGED <<frontvars, metavars, dest, part, bcur, verifying, head_i, body_len>>

\* if out_path.exists(): out_path.unlink(missing_ok=True) -- unlink raises on
\* a directory
Unlink ==
    /\ ~halted
    /\ bpc = "stale"
    /\ IF dest[bcur].kind = "dir"
       THEN /\ halted' = TRUE
            /\ UNCHANGED <<dest, bpc>>
       ELSE /\ dest' = [dest EXCEPT ![bcur] = Absent]
            /\ bpc' = "get"
            /\ UNCHANGED halted
    /\ UNCHANGED <<frontvars, metavars, part, bcur, verifying, head_i, remote_size, body_len>>

\* download_stream: requests.get(..., stream=True) or raise_for_status raised
GetError ==
    /\ ~halted
    /\ bpc = "get"
    /\ halted' = TRUE
    /\ UNCHANGED <<frontvars, metavars, dest, part, bpc, bcur, verifying, head_i, remote_size,
                   body_len>>

\* download_stream: the response arrived, with a body of n chunks to come (fewer
\* than ArchiveSize when the connection ends early and the library does not
\* report it); open(tmp_path, "wb")
StreamOpen(n) ==
    /\ ~halted
    /\ bpc = "get"
    /\ body_len' = n
    /\ part' = [part EXCEPT ![bcur] = RegularFile(0)]
    /\ bpc' = "stream"
    /\ UNCHANGED <<frontvars, metavars, dest, halted, bcur, verifying, head_i, remote_size>>

\* Chunk that writes to out_path.
ChunkBug ==
    /\ ~halted
    /\ bpc = "stream"
    /\ part[bcur].size < body_len
    /\ part' = [part EXCEPT ![bcur] = RegularFile(@.size + 1)]
    /\ dest' = [dest EXCEPT ![bcur] = RegularFile(part[bcur].size + 1)]
    /\ UNCHANGED <<frontvars, metavars, bpc, halted, bcur, verifying, head_i, remote_size,
                   body_len>>

\* for b in r.iter_content(chunk_size=chunk): f.write(b); written += len(b)
Chunk ==
    /\ ~halted
    /\ bpc = "stream"
    /\ part[bcur].size < body_len
    /\ part' = [part EXCEPT ![bcur] = RegularFile(@.size + 1)]
    /\ UNCHANGED <<frontvars, metavars, dest, bpc, halted, bcur, verifying, head_i, remote_size,
                   body_len>>

\* iter_content raised: the exception leaves download_stream and main()
StreamError ==
    /\ ~halted
    /\ bpc = "stream"
    /\ part[bcur].size < body_len
    /\ halted' = TRUE
    /\ UNCHANGED <<frontvars, metavars, dest, part, bpc, bcur, verifying, head_i, remote_size,
                   body_len>>

\* iter_content is exhausted; the file and the response are closed
StreamEnd ==
    /\ ~halted
    /\ bpc = "stream"
    /\ part[bcur].size = body_len
    /\ bpc' = "rename"
    /\ UNCHANGED <<frontvars, metavars, dest, part, halted, bcur, verifying, head_i, remote_size,
                   body_len>>

\* tmp_path.replace(out_path); return written; line 202 calls is_fully_downloaded
Rename ==
    /\ ~halted
    /\ bpc = "rename"
    /\ dest' = [dest EXCEPT ![bcur] = part[bcur]]
    /\ part' = [part EXCEPT ![bcur] = Absent]
    /\ verifying' = TRUE
    /\ bpc' = "check"
    /\ UNCHANGED <<frontvars, metavars, halted, bcur, head_i, remote_size, body_len>>

\* The process is killed (KeyboardInterrupt, SIGKILL, power) where it is.
Interrupt ==
    /\ ~halted
    /\ bpc # "done"
    /\ halted' = TRUE
    /\ UNCHANGED <<frontvars, metavars, dest, part, bpc, bcur, verifying, head_i, remote_size,
                   body_len>>

\* main() is run again, on the directory the last run left.
Restart ==
    /\ halted \/ bpc = "done"
    /\ halted' = FALSE
    /\ bpc' = "loop"
    /\ bcur' = 0
    /\ verifying' = FALSE
    /\ head_i' = 0
    /\ remote_size' = NotAsked
    /\ body_len' = 0
    /\ UNCHANGED <<frontvars, metavars, dest, part>>

\* ------------------------- epo-bulk-downloader.py: JSON extraction
\* The values of the product metadata.  A JSON object is a Python dict: the
\* function `items` from the keys it has to their values; JSON null is None.
Null == [type |-> "null"]
Str(s) == [type |-> "str", s |-> s]
Dict(f) == [type |-> "dict", items |-> f]
List(q) == [type |-> "list", items |-> q]
Empty == [k \in {} |-> Null]

\* d.get(k)
get(d, k) == IF k \in DOMAIN d THEN d[k] ELSE Null

\* pick_first that takes the first key present, whatever its value.
RECURSIVE pick_firstBug(_, _)
pick_firstBug(d, keys) ==
    IF keys = <<>> THEN Null
    ELSE IF Head(keys) \in DOMAIN d THEN d[Head(keys)]
    ELSE pick_firstBug(d, Tail(keys))

\* for k in keys: if k in d and d[k] is not None: return d[k]
\* return None
RECURSIVE pick_first(_, _)
pick_first(d, keys) ==
    IF keys = <<>> THEN Null
    ELSE IF Head(keys) \in DOMAIN d /\ d[Head(keys)] # Null THEN d[Head(keys)]
    ELSE pick_first(d, Tail(keys))

DeliveryIdKeys == <<"id", "deliveryId", "delivery_id", "deliveryID", "uuid", "key">>
FileIdKeys == <<"id", "fileId", "file_id", "fileID", "uuid", "key">>
FileNameKeys == <<"name", "fileName", "filename", "originalName">>
FilesKeys == <<"files", "file", "items", "content", "assets", "documents">>
DeliveryNestedKeys == <<"delivery", "meta", "data">>
FileNestedKeys == <<"file", "data", "meta">>
DefaultName == Str("download.bin")

find_delivery_id(d) == pick_first(d, DeliveryIdKeys)
find_file_id(d) == pick_first(d, FileIdKeys)

\* for k in [...]: v = delivery.get(k); if isinstance(v, list): return v
\* return []
RECURSIVE FirstList(_, _)
FirstList(d, keys) ==
    IF keys = <<>> THEN <<>>
    ELSE IF get(d, Head(keys)).type = "list" THEN get(d, Head(keys)).items
    ELSE FirstList(d, Tail(keys))

find_files_list(d) == FirstList(d, FilesKeys)

\* bool(v) is False: None, "", [] or {}
Falsy(v) ==
    \/ v.type = "null"
    \/ v.type = "str" /\ v.s = ""
    \/ v.type = "list" /\ v.items = <<>>
    \/ v.type = "dict" /\ DOMAIN v.items = {}

\* pick_first(file_obj, [...]) or "download.bin"
find_file_name(d) ==
    IF Falsy(pick_first(d, FileNameKeys)) THEN DefaultName ELSE pick_first(d, FileNameKeys)

\* for nested_key in [...]: if isinstance(d.get(nested_key), dict):
\*     x_id = find(d[nested_key]); if x_id is not None: d = d[nested_key]; break
\* The id found and the object d is then bound to; `keys` are the id keys.
RECURSIVE Nested(_, _, _)
Nested(d, nested_keys, keys) ==
    IF nested_keys = <<>> THEN [id |-> Null, d |-> d]
    ELSE LET v == get(d, Head(nested_keys)) IN
         IF v.type = "dict" /\ pick_first(v.items, keys) # Null
         THEN [id |-> pick_first(v.items, keys), d |-> v.items]
         ELSE Nested(d, Tail(nested_keys), keys)

\* The file objects: id fields, nested objects and name fields.
Field(k, values) == {Empty} \cup {k :> v : v \in values}
FileObjects ==
    {i @@ n @@ m :
        i \in {Empty, "id" :> Str("f"), ("id" :> Null) @@ ("fileId" :> Str("g"))},
        n \in {Empty, "meta" :> Str("s"),
               "file" :> Dict(("id" :> Str("n")) @@ ("fileName" :> Str("n.zip"))),
               "data" :> Dict("key" :> Str("k")),
               ("data" :> Dict("name" :> Str("u.zip"))) @@ ("meta" :> Dict("id" :> Str("m")))},
        m \in {Empty, "name" :> Str("a.zip"), "name" :> Null, "filename" :> Str(""),
               ("name" :> Null) @@ ("originalName" :> Str("o.zip"))}}
FileLists ==
    {<<f>> : f \in FileObjects}
        \cup {<<"name" :> Str("a.zip"), "id" :> Str("f"), "meta" :> Dict("id" :> Str("m"))>>}
FilesFields ==
    {Empty, "files" :> List(<<>>), "files" :> Str("s")}
        \cup {"files" :> List(q) : q \in FileLists}
        \cup {("files" :> Null) @@ ("items" :> List(<<"id" :> Str("f")>>))}

\* The delivery objects: id fields, the nested objects and the list of files,
\* which a nested object carries as the delivery does.
Deliveries ==
    UNION {{i @@ n1 @@ n2 @@ n3 @@ fl :
                i \in {Empty, "id" :> Null, "id" :> Str("A"), "uuid" :> Str("B"),
                       ("id" :> Null) @@ ("uuid" :> Str("B")),
                       ("id" :> Str("A")) @@ ("uuid" :> Str("B"))},
                n1 \in Field("delivery", {Str("s"), Dict(fl), Dict(("id" :> Str("D")) @@ fl)}),
                n2 \in Field("meta", {Dict(("id" :> Null) @@ fl), Dict(("id" :> Str("X")) @@ fl)}),
                n3 \in Field("data", {Dict(("key" :> Str("Z")) @@ fl)})} :
           fl \in FilesFields}

\* delivery_id = find_delivery_id(d)
DeliveryId ==
    /\ mstep = "delivery"
    /\ delivery_id' = find_delivery_id(delivery)
    /\ mstep' = IF find_delivery_id(delivery) = Null THEN "nested" ELSE "files"
    /\ UNCHANGED <<frontvars, dest, part, bpc, halted, bcur, verifying, head_i, remote_size,
                   body_len, delivery, file_list, fidx, fobj, file_id, name, requested>>

\* if delivery_id is None: the loop over the nested keys; if it is still None:
\* print("[skip] ..."); continue
DeliveryNested ==
    /\ mstep = "nested"
    /\ LET r == Nested(delivery, DeliveryNestedKeys, DeliveryIdKeys) IN
        /\ delivery_id' = r.id
        /\ delivery' = r.d
        /\ mstep' = IF r.id = Null THEN "skipped" ELSE "files"
    /\ UNCHANGED <<frontvars, dest, part, bpc, halted, bcur, verifying, head_i, remote_size,
                   body_len, file_list, fidx, fobj, file_id, name, requested>>

\* for fobj in files: the next file object, or the end of the list
NextObject(q, i) ==
    IF i < Len(q)
    THEN /\ fidx' = i + 1
         /\ fobj' = q[i + 1]
         /\ mstep' = "file"
    ELSE /\ mstep' = "end"
         /\ UNCHANGED <<fidx, fobj>>

\* files = find_files_list(d); if not files: print("[skip] ..."); continue
Files ==
    /\ mstep = "files"
    /\ file_list' = find_files_list(delivery)
    /\ IF find_files_list(delivery) = <<>>
       THEN /\ mstep' = "nofiles"
            /\ UNCHANGED <<fidx, fobj>>
       ELSE NextObject(find_files_list(delivery), 0)
    /\ UNCHANGED <<frontvars, dest, part, bpc, halted, bcur, verifying, head_i, remote_size,
                   body_len, delivery, delivery_id, file_id, name, requested>>

\* file_id = find_file_id(fobj)
FileId ==
    /\ mstep = "file"
    /\ file_id' = find_file_id(fobj)
    /\ mstep' = IF find_file_id(fobj) = Null THEN "file_nested" ELSE "name"
    /\ UNCHANGED <<frontvars, dest, part, bpc, halted, bcur, verifying, head_i, remote_size,
                   body_len, delivery, delivery_id, file_list, fidx, fobj, name, requested>>

\* if file_id is None: the loop over the nested keys; if it is still None:
\* print("[skip] ..."); continue
FileNested ==
    /\ mstep = "file_nested"
    /\ LET r == Nested(fobj, FileNestedKeys, FileIdKeys) IN
        /\ file_id' = r.id
        /\ IF r.id = Null
           THEN NextObject(file_list, fidx)
           ELSE /\ fobj' = r.d
                /\ mstep' = "name"
                /\ UNCHANGED fidx
    /\ UNCHANGED <<frontvars, dest, part, bpc, halted, bcur, verifying, head_i, remote_size,
                   body_len, delivery, delivery_id, file_list, name, requested>>

\* name = find_file_name(fobj); out_path = tmp_dir / name
\* url = DOWNLOAD_URL.format(delivery_id=delivery_id, file_id=file_id)
FileName ==
    /\ mstep = "name"
    /\ name' = find_file_name(fobj)
    /\ mstep' = "url"
    /\ UNCHANGED <<frontvars, dest, part, bpc, halted, bcur, verifying, head_i, remote_size,
                   body_len, delivery, delivery_id, file_list, fidx, fobj, file_id, requested>>

\* is_fully_downloaded(out_path, url) and what follows it: the requests for the
\* file are made; then the next file object
Request ==
    /\ mstep = "url"
    /\ requested' = Append(requested, [delivery_id |-> delivery_id, file_id |-> file_id,
                                       name |-> name])
    /\ NextObject(file_list, fidx)
    /\ UNCHANGED <<frontvars, dest, part, bpc, halted, bcur, verifying, head_i, remote_size,
                   body_len, delivery, delivery_id, file_list, file_id, name>>

\* main() has no delivery object at hand.
NoMeta ==
    /\ delivery = Empty
    /\ delivery_id = Null
    /\ file_list = <<>>
    /\ fidx = 0
    /\ fobj = Empty
    /\ file_id = Null
    /\ name = Null
    /\ mstep = "off"
    /\ requested = <<>>

\* ------------------------------------------------------------ specs
InitFiles == {NoFile, [exists |-> TRUE, pdf |-> TRUE, len |-> MinBytes],
              [exists |-> TRUE, pdf |-> TRUE, len |-> MinBytes + 1]}

InitProcess ==
    /\ token_lock = NoOne
    /\ rl_lock = NoOne
    /\ since = 0
    /\ gap = min_interval
    /\ dispatched = 0
    /\ pc = [t \in Tasks |-> "new"]
    /\ attempt = [t \in Tasks |-> 1]
    /\ http_status = [t \in Tasks |-> 0]
    /\ last_msg = [t \in Tasks |-> NoMsg]
    /\ sleep_s = [t \in Tasks |-> NoSleep]
    /\ hdr = [t \in Tasks |-> None]
    /\ resp = [t \in Tasks |-> NoResponse]
    /\ result = [t \in Tasks |-> NoResult]
    /\ gets = [t \in Tasks |-> 0]
    /\ slots = [t \in Tasks |-> 0]
    /\ refreshes = [t \in Tasks |-> 0]
    /\ refreshed_at = [t \in Tasks |-> 0]
    /\ before = files
    /\ mpc = "init"
    /\ cur = 0
    /\ collected = {}
    /\ run = 1
    /\ first = [t \in Tasks |-> NoResult]

\* epo-bulk-downloader.py is not run.
NoBulk ==
    /\ dest = [f \in Archives |-> Absent]
    /\ part = [f \in Archives |-> Absent]
    /\ bpc = "idle"
    /\ halted = FALSE
    /\ bcur = 0
    /\ verifying = FALSE
    /\ head_i = 0
    /\ remote_size = NotAsked
    /\ body_len = 0
    /\ NoMeta

\* run_bulk(tasks, workers, chunk_size) on a list of NTasks tasks
Init ==
    /\ total = NTasks
    /\ workers \in 1..MaxWorkers
    /\ chunk_size \in 1..MaxChunk
    /\ endpoint = [t \in Tasks |-> "document"]
    /\ faults = MaxFaults
    /\ files \in [Tasks -> {NoFile}]
    /\ token = None
    /\ issued = 0
    /\ log_exists = FALSE
    /\ log = <<>>
    /\ InitProcess
    /\ NoBulk

Worker(t) ==
    \/ Start(t)
    \/ PreCheck(t)
    \/ TokCached(t)
    \/ TokAcquire(t)
    \/ TokFetchOk(t)
    \/ TokFetchFail(t)
    \/ \E e \in 0..min_interval : WaitEnter(t, e)
    \/ WaitExit(t)
    \/ \E o \in Outcomes : Get(t, o)
    \/ RefreshAcquire(t)
    \/ RefreshOk(t)
    \/ RefreshFail(t)
    \/ ReTok(t)
    \/ Wake(t)

Main ==
    \/ init_log
    \/ Submit
    \/ \E t \in Tasks : Collect(t)
    \/ \E t \in Tasks : CollectRaise(t)
    \/ Shutdown
    \/ ChunkEnd
    \/ Finish

Next ==
    \/ \E t \in Tasks : Worker(t)
    \/ Main

Spec == Init /\ [][Next]_vars

\* run_bulk on one task with one worker: download_one alone, against every
\* endpoint profile, any number of faults and any file at the output path.
InitOne ==
    /\ total = 1
    /\ workers = 1
    /\ chunk_size = 1
    /\ endpoint \in [Tasks -> Profiles]
    /\ faults = Unbounded
    /\ files \in [Tasks -> InitFiles]
    /\ token \in {None, 1}
    /\ issued = token
    /\ \A t \in Tasks : t > 1 => endpoint[t] = "any" /\ files[t] = NoFile
    /\ log_exists \in BOOLEAN
    /\ log = IF log_exists THEN <<Header, OldRow>> ELSE <<>>
    /\ InitProcess
    /\ NoBulk

SpecOne == InitOne /\ [][Next]_vars

\* two runs of run_bulk, one after the other, on the same list
InitTwice ==
    /\ total = 2
    /\ workers = MaxWorkers
    /\ chunk_size = MaxChunk
    /\ endpoint = [t \in Tasks |-> "any"]
    /\ faults = MaxFaults
    /\ files \in [Tasks -> {NoFile}]
    /\ token = None
    /\ issued = 0
    /\ log_exists = FALSE
    /\ log = <<>>
    /\ InitProcess
    /\ NoBulk

NextTwice ==
    \/ Next
    \/ Rerun

SpecTwice == InitTwice /\ [][NextTwice]_vars

\* Threads that can take a step take one: every HTTP call carries a timeout and
\* every sleep ends.
SpecOneFair == InitOne /\ [][Next]_vars /\ WF_vars(Next)

\* run_bulk on two tasks in one chunk whose first GETs are both answered with
\* 401: the credential the process holds has expired.
InitAuth ==
    /\ total = 2
    /\ workers = MaxWorkers
    /\ chunk_size = MaxChunk
    /\ endpoint = [t \in Tasks |-> "401then200"]
    /\ faults = Unbounded
    /\ files \in [Tasks -> {NoFile}]
    /\ token = None
    /\ issued = 0
    /\ log_exists = FALSE
    /\ log = <<>>
    /\ InitProcess
    /\ NoBulk

SpecAuth == InitAuth /\ [][Next]_vars

\* run_bulk with its worker threads scheduled fairly, every HTTP call and every
\* sleep returning.
SpecAuthFair == InitAuth /\ [][Next]_vars /\ WF_vars(Next)

\* patent-first-page-downloader.py is not run.
NoFront ==
    /\ total = 0
    /\ workers = 1
    /\ chunk_size = 1
    /\ endpoint = [t \in Tasks |-> "any"]
    /\ faults = 0
    /\ files = [t \in Tasks |-> NoFile]
    /\ token = None
    /\ issued = 0
    /\ log_exists = FALSE
    /\ log = <<>>
    /\ InitProcess

\* main() of epo-bulk-downloader.py begins its loop over the files; tmp_bdds
\* may hold anything at the output paths, and a .part file of an earlier run.
InitBulk ==
    /\ NoFront
    /\ dest \in [Archives -> {Absent, Directory} \cup {RegularFile(n) : n \in 0..ArchiveSize}]
    /\ part \in [Archives -> {Absent, RegularFile(1)}]
    /\ bpc = "loop"
    /\ halted = FALSE
    /\ bcur = 0
    /\ verifying = FALSE
    /\ head_i = 0
    /\ remote_size = NotAsked
    /\ body_len = 0
    /\ NoMeta

NextBulk ==
    \/ NextFile
    \/ CheckLocal
    \/ HeadError
    \/ \E cl \in {NoLength, ArchiveSize} : HeadAnswer(cl)
    \/ Unlink
    \/ GetError
    \/ \E n \in 0..ArchiveSize : StreamOpen(n)
    \/ Chunk
    \/ StreamError
    \/ StreamEnd
    \/ Rename
    \/ Interrupt
    \/ Restart

SpecBulk == InitBulk /\ [][NextBulk]_vars

\* main() of epo-bulk-downloader.py takes a delivery object d of the product
\* metadata: `for idx, d in enumerate(deliveries)`.
InitMeta ==
    /\ NoFront
    /\ dest = [f \in Archives |-> Absent]
    /\ part = [f \in Archives |-> Absent]
    /\ bpc = "idle"
    /\ halted = FALSE
    /\ bcur = 0
    /\ verifying = FALSE
    /\ head_i = 0
    /\ remote_size = NotAsked
    /\ body_len = 0
    /\ delivery \in Deliveries
    /\ delivery_id = Null
    /\ file_list = <<>>
    /\ fidx = 0
    /\ fobj = Empty
    /\ file_id = Null
    /\ name = Null
    /\ mstep = "delivery"
    /\ requested = <<>>

NextMeta ==
    \/ DeliveryId
    \/ DeliveryNested
    \/ Files
    \/ FileId
    \/ FileNested
    \/ FileName
    \/ Request

SpecMeta == InitMeta /\ [][NextMeta]_vars

\* ------------------------------------------------------------ claims
InList == 1..total
Failed(http) == [ok |-> FALSE, status |-> "failed", http |-> http, bytes |-> 0]

\* C1: a download_one call on a task with no output file whose endpoint answers
\* every GET with 503 issues at most 7 GETs, cannot raise once it has issued
\* one, and returns only after exactly 7 GETs, with the result
\* (failed, 503, 0 bytes) and still no file at the output path.
C1_Always503 ==
    \A t \in InList :
        endpoint[t] = "always503" /\ ~before[t].exists =>
            /\ gets[t] <= MaxAttempts
            /\ gets[t] > 0 => pc[t] # "raised"
            /\ pc[t] = "done" =>
                /\ gets[t] = MaxAttempts
                /\ result[t] = Failed(503)
                /\ files[t] = NoFile

C1_Witness ==
    \E t \in InList :
        /\ endpoint[t] = "always503" /\ ~before[t].exists
        /\ pc[t] = "done" /\ gets[t] = 7 /\ result[t].status = "failed"

\* C2: with an endpoint that answers the first GET with 401 and the second with
\* 200 and a PDF, a call that issues a GET returns `downloaded` right at its
\* second GET, and its only refresh_token call was made after the first GET
\* and before the second.
C2_AuthRecovery ==
    \A t \in InList :
        endpoint[t] = "401then200" =>
            /\ gets[t] <= 2
            /\ refreshes[t] <= 1
            /\ gets[t] = 0 => refreshes[t] = 0
            /\ refreshes[t] = 1 => refreshed_at[t] = 1
            /\ pc[t] = "done" /\ gets[t] > 0 => gets[t] = 2
            /\ gets[t] = 2 =>
                /\ refreshes[t] = 1
                /\ pc[t] = "done"
                /\ result[t] = [ok |-> TRUE, status |-> "downloaded", http |-> 200,
                                bytes |-> files[t].len]
                /\ files[t] = resp[t].body /\ files[t].pdf

C2_Witness ==
    \E t \in InList :
        /\ endpoint[t] = "401then200"
        /\ pc[t] = "done" /\ gets[t] = 2 /\ refreshes[t] = 1
        /\ result[t].status = "downloaded"

\* Every attempt of download_one is one GET (a 401 included), no call issues
\* more than 7 GETs or raises after a GET, and a call whose endpoint answers
\* only 401 returns (failed, 401) after exactly 7 GETs.
C3_AttemptsCounted ==
    \A t \in InList :
        /\ gets[t] <= MaxAttempts
        /\ attempt[t] <= MaxAttempts
        /\ pc[t] \in {"wait", "pace", "get"} => gets[t] = attempt[t] - 1
        /\ pc[t] \in {"refresh", "refresh_fetch", "retok", "sleep"} => gets[t] = attempt[t]
        /\ gets[t] > 0 => pc[t] # "raised"
        /\ endpoint[t] = "only401" /\ pc[t] = "done" /\ gets[t] > 0 =>
                gets[t] = MaxAttempts /\ result[t] = Failed(401)

\* C3: whatever the endpoint answers, every attempt of download_one is one GET
\* (a 401 included), no call issues more than 7 GETs, a call whose endpoint
\* answers only 401 returns (failed, 401) after exactly 7 GETs, and a call that
\* has issued a GET eventually returns a result.
C3_Bounded ==
    /\ []C3_AttemptsCounted
    /\ \A t \in Tasks : (gets[t] > 0) ~> (pc[t] = "done")

C3_Witness ==
    \E t \in InList :
        /\ endpoint[t] = "only401"
        /\ pc[t] = "done" /\ gets[t] = 7 /\ refreshes[t] = 7
        /\ result[t] = Failed(401)

\* C4: once a GET was answered with 200 and a body that does not start with
\* %PDF, the call has returned (failed, 200, 0 bytes), so that no further
\* attempt follows, and the output path holds what it held when the call began.
C4_InvalidContent ==
    \A t \in InList :
        resp[t].kind = "resp" /\ resp[t].status = 200 /\ ~resp[t].body.pdf =>
            /\ pc[t] = "done"
            /\ result[t] = Failed(200)
            /\ files[t] = before[t]

C4_Witness ==
    \E t \in InList :
        /\ resp[t].status = 200 /\ ~resp[t].body.pdf
        /\ gets[t] = 3 /\ pc[t] = "done"
        /\ ~before[t].exists /\ ~files[t].exists

\* A call that made no network call: it took no slot of the rate limiter and
\* issued no GET, and if it has returned, it returned `skipped`.
NoNetworkCall(t) ==
    /\ pc[t] # "pace" /\ slots[t] = 0
    /\ gets[t] = 0
    /\ pc[t] = "done" => result[t].status = "skipped"

\* C5 as stated: in the second run, no task that the first run ended as
\* `downloaded` makes a network call, and each ends as `skipped`.
C5_Original ==
    run = 2 => \A t \in InList : first[t].status = "downloaded" => NoNetworkCall(t)

\* C5 as amended: in the second run, no task that the first run ended as
\* `downloaded` with more than 1024 bytes written makes a network call, and
\* each ends as `skipped`.
C5_Idempotent ==
    run = 2 =>
        \A t \in InList :
            first[t].status = "downloaded" /\ first[t].bytes > MinBytes =>
                NoNetworkCall(t)

C5_Witness ==
    /\ run = 2
    /\ mpc = "done"
    /\ \E t \in InList :
        /\ first[t].status = "downloaded" /\ first[t].bytes > MinBytes
        /\ result[t].status = "skipped"
    /\ \E u \in InList : first[u].status = "failed" /\ gets[u] > 0

\* C6: every value assigned to rate_limiter.last is at least min_interval after
\* the value it replaces, and wait() returns with that assignment; at most
\* one thread, the holder of the lock, is between the read of the clock and
\* the assignment.
C6_Pacing ==
    /\ gap >= min_interval
    /\ \A t \in Tasks : pc[t] = "pace" <=> rl_lock = t

C6_Witness ==
    /\ dispatched >= 1
    /\ \E t, u \in InList :
        /\ t # u
        /\ pc[t] = "pace" /\ since < min_interval
        /\ pc[u] = "wait"

\* C7: when a task of a chunk has started (its download_one call has begun),
\* every task of every earlier chunk has returned its result.
C7_ChunkBarrier ==
    \A t, u \in InList :
        ChunkOf(t) < ChunkOf(u) /\ pc[u] \notin {"new", "queued"} =>
            pc[t] = "done" /\ t \in collected

C7_Witness ==
    /\ chunk_size = 2 /\ workers = 2
    /\ \E u \in InList : ChunkOf(u) = 2 /\ Running(u)
    /\ \E t \in InList : ChunkOf(t) = 1 /\ result[t].status = "failed"

\* C8: at most `workers` download_one calls are in progress, and the tasks
\* submitted and not finished are at most chunk_size tasks of the current chunk.
C8_BoundedConcurrency ==
    LET running == {t \in Tasks : Running(t)}
        pending == {t \in Tasks : Running(t) \/ pc[t] = "queued"}
    IN  /\ Cardinality(running) <= workers
        /\ Cardinality(pending) <= chunk_size
        /\ pending # {} => cur >= 1 /\ pending \subseteq chunked(total, chunk_size, cur)

C8_Witness ==
    /\ workers = 1 /\ chunk_size = 2
    /\ cur = 1
    /\ \E t, u \in InList : Running(t) /\ pc[u] = "queued" /\ gets[t] > 0

\* C9 as stated: when run_bulk has ended, every task of the list has exactly
\* one row in the result log.
C9_EveryTaskLogged ==
    mpc \in {"done", "crashed"} =>
        \A t \in InList : Cardinality({i \in DOMAIN log : log[i].task = t}) = 1

\* C10 as stated: a failed credential fetch never propagates out of
\* download_one.
C10_CredentialFailureContained ==
    \A t \in InList : pc[t] # "raised"

\* The threads inside _get_token_raw().
Fetching == {t \in Tasks : pc[t] \in {"tok_fetch", "refresh_fetch"}}

\* C11: at most one thread is inside a credential fetch, and it is the holder of
\* _token_lock; a thread takes a value of _token into its header only while no
\* other thread holds the lock, and the value it takes is the current one; the
\* current credential, once there is one, is the last one the auth endpoint
\* issued.
C11_TokenLock ==
    /\ [](/\ Cardinality(Fetching) <= 1
          /\ \A t \in Tasks : t \in Fetching <=> token_lock = t
          /\ token \in {None, issued})
    /\ [][\A t \in Tasks :
            hdr'[t] # hdr[t] => token_lock \in {NoOne, t} /\ hdr'[t] = token']_vars

C11_Witness ==
    \E t, u \in InList :
        /\ t # u
        /\ pc[t] = "refresh_fetch" /\ token_lock = t
        /\ pc[u] = "tok"


\* The threads whose refresh_token call has begun or ended its fetch, for the
\* credential k that their 401 answered (the header still carries it).
RefetchedFor(k) == {t \in InList : pc[t] \in {"refresh_fetch", "retok"} /\ hdr[t] = k}

\* C12 as stated: the workers whose GETs with the same credential were answered
\* with 401 cause one fetch of a new credential, not one each.
C12_OneFetchPerStaleCredential ==
    \A k \in 1..issued : Cardinality(RefetchedFor(k)) <= 1


\* C13: once a GET was answered with a status that is not 200, not 401 and not
\* in RETRY_STATUS, the call has returned (failed, that status, 0 bytes) at that
\* very GET: it is the GET of the last attempt begun, the last refresh_token
\* call was before it, and the output path holds what it held at the start.
C13_FatalStatus ==
    \A t \in InList :
        resp[t].kind = "resp" /\ resp[t].status \notin {200, 401} \cup RETRY_STATUS =>
            /\ pc[t] = "done"
            /\ result[t] = Failed(resp[t].status)
            /\ gets[t] = attempt[t]
            /\ refreshes[t] > 0 => refreshed_at[t] < gets[t]
            /\ files[t] = before[t]

C13_Witness ==
    \E t \in InList :
        /\ resp[t].status = 404
        /\ pc[t] = "done" /\ gets[t] = 3 /\ refreshes[t] = 1
        /\ before[t].exists /\ files[t] = before[t]


\* C14: the file at the output path changes only in the step in which the call
\* returns `downloaded`; a call that has returned `downloaded` got 200 with a
\* body starting with %PDF, its file is that whole body and its byte count the
\* length of it; at every other point the output path holds what it held when
\* the call began.
C14_SingleWrite ==
    /\ [](\A t \in InList :
            IF result[t].status = "downloaded"
            THEN /\ pc[t] = "done"
                 /\ resp[t].kind = "resp" /\ resp[t].status = 200 /\ resp[t].body.pdf
                 /\ files[t] = resp[t].body
                 /\ result[t].bytes = resp[t].body.len
            ELSE files[t] = before[t])
    /\ [][\A t \in InList :
            files'[t] # files[t] =>
                result[t].status = "none" /\ result'[t].status = "downloaded"]_vars

C14_Witness ==
    \E t \in InList :
        /\ result[t].status = "downloaded" /\ gets[t] = 2
        /\ before[t].exists /\ files[t] # before[t]
        /\ files[t].len = MinBytes + 1


\* The skip half of C15: a call that found a file of more than 1024 bytes at
\* its output path is past the check only as returned, with (skipped, 200, the
\* size of the file), having taken no slot of the rate limiter, not read or
\* fetched the credential, issued no GET and left the file as it was.
C15_Skip ==
    \A t \in InList :
        Complete(before[t]) /\ pc[t] \notin {"new", "queued", "precheck"} =>
            /\ pc[t] = "done"
            /\ result[t] = [ok |-> TRUE, status |-> "skipped", http |-> 200,
                            bytes |-> before[t].len]
            /\ slots[t] = 0 /\ gets[t] = 0 /\ refreshes[t] = 0
            /\ hdr[t] = None
            /\ files[t] = before[t]

\* C15 as stated: the skip half, and a call that found no file, or one of at
\* most 1024 bytes, enters the attempt loop: it does not end without having
\* begun an attempt.
C15_SkipOrAttempt ==
    /\ C15_Skip
    /\ \A t \in InList :
            ~Complete(before[t]) /\ pc[t] \in {"done", "raised"} => slots[t] >= 1


\* C16: main() takes a file as complete (line 189, or line 202 passed) only if
\* it is a regular file of size > 0 and a HEAD returned a Content-Length equal
\* to that size; a probe whose 4 HEADs all failed returns None, and after a
\* probe that returned None (HEAD failed 4 times, or no Content-Length) for an
\* existing file main() is on the path of the re-download: the file is deleted
\* and download_stream is called.
C16_VerifiedBySize ==
    /\ bpc \in {"skip", "verified"} =>
        /\ dest[bcur].kind = "file" /\ dest[bcur].size > 0
        /\ remote_size = dest[bcur].size
        /\ head_i < HeadRetries
    /\ head_i = HeadRetries => remote_size = NoLength
    /\ remote_size = NoLength /\ ~verifying =>
        /\ bpc \in {"stale", "get", "stream", "rename"}
        /\ bpc # "stale" => dest[bcur] = Absent

C16_Witness ==
    /\ ~verifying /\ ~halted
    /\ head_i = HeadRetries /\ remote_size = NoLength
    /\ bpc = "stream" /\ part[bcur] = RegularFile(1)

\* C17: while download_stream runs and has not renamed, and when it was
\* interrupted there, nothing is at the final path; the final path is set only
\* by the rename, to the .part file that holds the whole body of a stream that
\* ended without error (any other change of it is the deletion of line 195);
\* after the rename the final path holds that whole body.
C17_AtomicRename ==
    /\ [](bpc \in {"get", "stream", "rename"} => dest[bcur] = Absent)
    /\ [](verifying => dest[bcur] = RegularFile(body_len))
    /\ [][\A f \in Archives :
            dest'[f] # dest[f] =>
                \/ dest'[f] = Absent
                \/ /\ bpc = "rename" /\ f = bcur
                   /\ part[f] = RegularFile(body_len)
                   /\ dest'[f] = part[f] /\ part'[f] = Absent]_vars

C17_Witness ==
    /\ halted /\ bpc = "stream"
    /\ body_len = ArchiveSize /\ part[bcur] = RegularFile(1)
    /\ dest[bcur] = Absent
    /\ bcur = 2 /\ dest[1] = RegularFile(ArchiveSize)


\* The log after a step is the log before it, or that log with one row more.
Appended == log' = log \/ (Len(log') = Len(log) + 1 /\ SubSeq(log', 1, Len(log)) = log)

\* C18: every step leaves the log as it was or appends one row to it; the
\* header row is written only to a log that did not exist, and is then its first
\* row; each future collected with a result appends exactly the row of its
\* task; an existing log begins with its one header row.
C18_AppendOnly ==
    /\ [][Appended]_vars
    /\ [][log' # log /\ log'[Len(log')] = Header => ~log_exists /\ log = <<>>]_vars
    /\ [][\A t \in Tasks :
            t \in collected' \ collected /\ pc[t] = "done" =>
                /\ Len(log') = Len(log) + 1
                /\ log'[Len(log')].task = t
                /\ log'[Len(log')].status = result[t].status]_vars
    /\ [](log_exists =>
            /\ Len(log) >= 1 /\ log[1] = Header
            /\ \A i \in 2..Len(log) : log[i] # Header)

C18_Witness ==
    /\ run = 2
    /\ Len(log) = 5
    /\ log[1] = Header
    /\ log[2].task # log[3].task /\ log[4].task # log[5].task


\* C19 as stated: when an attempt of download_one begins (rate_limiter.wait()
\* is entered, the GET follows), the header of the task carries the credential
\* that is current, whichever worker installed it.
C19_CurrentCredential ==
    [][\A t \in Tasks : pc[t] = "wait" /\ pc'[t] = "pace" => hdr[t] = token]_vars


\* C20 as stated, for the front-page flow: when a call that found a file of at
\* most 1024 bytes at its output path is about to issue a GET, and from then
\* on, that file is gone: the path is empty or holds the downloaded document.
C20_StaleDeleted ==
    \A t \in InList :
        /\ before[t].exists /\ ~Complete(before[t])
        /\ pc[t] = "get" \/ gets[t] > 0
        => \/ ~files[t].exists
           \/ result[t].status = "downloaded"


\* The backoff d_k of the claim: 2^(k-1) <= d < 2^(k-1) + 1, capped at 60.
C21_Backoff(k, span) ==
    /\ span.lo = (IF 2^(k - 1) < 60 THEN 2^(k - 1) ELSE 60)
    /\ span.sup = (IF 2^(k - 1) + 1 < 60 THEN 2^(k - 1) + 1 ELSE 60)
    /\ k = 7 => span.lo = 60 /\ span.sup = 60
    /\ \A j \in 1..k : 2^(j - 1) <= 60 => 2^(j - 1) <= span.lo

\* A sleep of download_one begins at attempt k, after a retryable status or
\* after a requests.RequestException.
C21_Sleep(t) ==
    LET k == attempt[t]
        s == sleep_s'[t]
    IN  IF last_msg'[t].kind = "retryable HTTP"
        THEN /\ http_status'[t] \in RETRY_STATUS
             /\ IF s.ra.present /\ isdigit(s.ra.text)
                THEN s.span.lo = int(s.ra.text) /\ s.span.sup = s.span.lo
                ELSE C21_Backoff(k, s.span)
        ELSE /\ last_msg'[t].kind = "request error"
             /\ C21_Backoff(k, s.span)

\* C21 as stated: a sleep of download_one follows a GET (a retryable status:
\* Retry-After seconds if the header is numeric, else the backoff d_k; a
\* network error: the backoff d_k), and after a 401 there is no backoff at all.
C21_Original ==
    [][\A t \in Tasks : pc[t] # "sleep" /\ pc'[t] = "sleep" =>
            /\ pc[t] = "get"
            /\ C21_Sleep(t)]_vars

\* C21, amended: the sleeps are as stated after a retryable status and after a
\* network error; after a 401 there is no sleep when refresh_token succeeds
\* (the next attempt follows at once), and the backoff d_k is slept when the
\* credential fetch inside refresh_token fails.
C21_Sleeps ==
    [][\A t \in Tasks :
            /\ pc[t] # "sleep" /\ pc'[t] = "sleep" =>
                /\ pc[t] \in {"get", "refresh_fetch"}
                /\ pc[t] = "refresh_fetch" =>
                        token' = token /\ last_msg'[t].kind = "request error"
                /\ C21_Sleep(t)
            /\ pc[t] = "retok" /\ pc'[t] # "retok" => pc'[t] \in {"wait", "done"}]_vars

C21_Witness ==
    \E t \in Tasks :
        /\ pc[t] = "sleep"
        /\ attempt[t] = MaxAttempts
        /\ resp[t].status = 401 /\ refreshed_at[t] = gets[t]
        /\ sleep_s[t].span = Span(60, 60)


\* The call of download_one for t used all its attempts: it returned `failed`
\* after the loop, its last attempt having ended in a retryable status or in
\* a request error.
C22_Exhausted(t) ==
    /\ pc[t] = "done"
    /\ result[t].status = "failed"
    /\ attempt[t] = MaxAttempts
    /\ last_msg[t].kind \in {"retryable HTTP", "request error"}

\* C22 as stated: the row recorded for a task that used all 7 attempts has
\* status `failed` and carries the message observed at the last attempt, and
\* the retryable HTTP status that message names.
C22_LastObserved ==
    [][\A t \in Tasks : C22_Exhausted(t) /\ t \in collected' \ collected =>
            LET row == log'[Len(log')] IN
                /\ row.task = t
                /\ row.status = "failed"
                /\ row.msg = last_msg[t].kind
                /\ last_msg[t].kind = "retryable HTTP" => row.http = last_msg[t].status]_vars


\* The calls of get_token_cached of this run that fetched: the one inside
\* _get_token_raw(), those whose fetch raised, and the one whose fetch created
\* the credential.
C23_Fetches ==
    Cardinality({t \in Tasks : pc[t] \in {"tok_fetch", "raised"}})
        + (IF issued > 0 THEN 1 ELSE 0)

\* C23 as stated: the workers that call get_token_cached while no credential
\* exists cause exactly one fetch between them.
C23_Original == C23_Fetches <= 1

\* C23, amended: no credential is fetched before a task that needs a request
\* has passed its pre-check; get_token_cached fetches only while no credential
\* exists, one caller at a time, and exactly one such fetch succeeds: it creates
\* the first credential, and every other caller receives the credential current
\* at its call without a fetch; a failed fetch creates nothing.  Once a
\* credential exists, it is replaced only by the refresh_token call of a task
\* whose GET was answered with 401.
C23_LazyCredential ==
    /\ [](/\ issued > 0 \/ Fetching # {} =>
                \E t \in InList : /\ pc[t] \notin {"new", "queued", "precheck"}
                                  /\ result[t].status # "skipped"
          /\ \A t \in Tasks : pc[t] = "tok_fetch" => token = None /\ issued = 0
          /\ Cardinality({t \in Tasks : pc[t] = "tok_fetch"}) <= 1
          /\ (\A u \in Tasks : refreshes[u] = 0) =>
                \A t \in Tasks : hdr[t] \in {None, 1})
    /\ [][run' = run =>
            /\ \A t \in Tasks :
                /\ pc[t] = "tok" /\ pc'[t] = "wait" =>
                        token # None /\ hdr'[t] = token /\ token' = token /\ issued' = issued
                /\ pc[t] = "tok_fetch" /\ pc'[t] = "wait" =>
                        token' = 1 /\ hdr'[t] = 1 /\ issued' = 1
                /\ pc[t] = "tok_fetch" /\ pc'[t] = "raised" =>
                        token' = None /\ issued' = 0
            /\ token # None /\ token' # token =>
                \E t \in Tasks : /\ pc[t] = "refresh_fetch" /\ pc'[t] = "retok"
                                 /\ resp[t].status = 401]_vars

C23_Witness ==
    \E t, u \in InList :
        /\ t # u
        /\ pc[t] = "raised" /\ pc[u] = "tok_fetch"
        /\ token = None


\* The positions of the rows of the tasks in the log.
C24_Rows == {i \in DOMAIN log : log[i].task \in InList}

\* C24 as stated: a row is appended for a task only after its download_one call
\* returned, and it is the result returned; a task of a chunk that has finished
\* while another task of the chunk has not is logged before that other task;
\* the rows of a chunk precede the rows of the next chunk.
C24_CompletionOrder ==
    /\ [][\A t \in Tasks : t \in collected' \ collected /\ Len(log') > Len(log) =>
            /\ pc[t] = "done"
            /\ log'[Len(log')].task = t
            /\ log'[Len(log')].status = result[t].status]_vars
    /\ [](\A i, j \in C24_Rows : i < j => ChunkOf(log[i].task) <= ChunkOf(log[j].task))
    /\ \A t, u \in Tasks :
        [](/\ t \in InList /\ u \in InList /\ t # u
           /\ ChunkOf(t) = ChunkOf(u)
           /\ pc[t] = "done" /\ t \notin collected
           /\ Running(u)
           => [](pc[u] = "done" /\ u \in collected => t \in collected))


\* The worker of t is suspended: inside its GET, in a backoff sleep, or inside
\* RateLimiter.wait (in the deficit sleep, or about to record `last`).
C25_Suspended(t) == pc[t] \in {"get", "sleep", "pace"}

\* The worker of u waits for a lock that another thread holds.
C25_Locked(u) ==
    \/ pc[u] = "wait" /\ rl_lock \notin {NoOne, u}
    \/ pc[u] \in {"tok", "refresh", "retok"} /\ token_lock \notin {NoOne, u}

\* C25 as stated: while a worker is suspended, every other worker whose
\* download_one call is in progress can take its next step.
C25_Original ==
    \A t, u \in InList :
        t # u /\ C25_Suspended(t) /\ Running(u) => ENABLED Worker(u)

\* C25, amended: a worker inside its GET or in its backoff sleep holds no lock,
\* and it blocks no other worker; a worker whose call is in progress cannot
\* take its next step only when it waits for the rate limiter's lock, which a
\* worker inside wait() holds through its deficit sleep, or for the token lock,
\* which a worker holds through its credential fetch.
C25_BlocksOnlyItself ==
    /\ \A t \in InList :
        pc[t] \in {"get", "sleep"} => rl_lock # t /\ token_lock # t
    /\ \A u \in InList :
        Running(u) => (ENABLED Worker(u) <=> ~C25_Locked(u))
    /\ \A u \in InList :
        C25_Locked(u) =>
            \E t \in InList \ {u} : \/ pc[t] = "pace" /\ rl_lock = t /\ pc[u] = "wait"
                                    \/ t \in Fetching /\ token_lock = t /\ pc[u] # "wait"

C25_Witness ==
    \E t, u \in InList :
        /\ pc[t] = "pace" /\ since < min_interval
        /\ pc[u] = "wait" /\ attempt[u] = 2
        /\ ~ENABLED Worker(u)


\* C26: when the re-check of a file that download_stream has just written
\* fails, main() raises: the run is over at that file, which stays at its final
\* path with no .part file beside it; nothing is probed, deleted or downloaded
\* until main() is run again, and the files after it were not visited.
C26_VerificationFatal ==
    /\ [][/\ ~halted /\ verifying
          /\ bpc \in {"check", "head"} /\ bpc' \notin {"check", "head"}
          /\ ~is_fully_downloaded(dest[bcur], remote_size')
          => /\ bpc' = "unverified" /\ halted'
             /\ bcur' = bcur /\ dest' = dest /\ part' = part]_vars
    /\ [](bpc = "unverified" =>
            /\ halted
            /\ dest[bcur].kind = "file" /\ dest[bcur].size = body_len
            /\ part[bcur] = Absent)
    /\ [][bpc = "unverified" =>
            /\ bpc' = "loop" /\ bcur' = 0
            /\ dest' = dest /\ part' = part]_vars

C26_Witness ==
    /\ bpc = "unverified" /\ halted
    /\ bcur < NArchives
    /\ dest[bcur].size > 0
    /\ remote_size \notin {NoLength, NotAsked, dest[bcur].size}
    /\ dest[bcur + 1] = Absent


\* The value of the first of the candidate keys, in their order, that d has
\* with a value that is not null; null when d has none.
C27_FirstPresent(d, keys) ==
    LET present == {i \in 1..Len(keys) : keys[i] \in DOMAIN d /\ d[keys[i]] # Null}
    IN  IF present = {} THEN Null
        ELSE d[keys[CHOOSE i \in present : \A j \in present : i <= j]]

\* The objects nested in d, one level deep, under the keys given, that have an id.
C27_NestedHits(d, nested_keys, keys) ==
    {i \in 1..Len(nested_keys) :
        /\ nested_keys[i] \in DOMAIN d
        /\ d[nested_keys[i]].type = "dict"
        /\ C27_FirstPresent(d[nested_keys[i]].items, keys) # Null}

\* C27: the delivery id is the value of the first candidate key present with a
\* non-null value; main() looks into the nested objects `delivery`, `meta`,
\* `data`, in that order and one level deep, only when the delivery has no id
\* itself, so that {"meta": {"id": "X"}} resolves to "X"; a delivery or a file
\* object whose id is found at no level is skipped, and no request is made for
\* it; a file object with no name field gets the name download.bin.
C27_Extraction ==
    /\ [][mstep = "delivery" /\ mstep' # "delivery" =>
            /\ delivery_id' = C27_FirstPresent(delivery, DeliveryIdKeys)
            /\ delivery' = delivery
            /\ mstep' = IF delivery_id' = Null THEN "nested" ELSE "files"]_vars
    /\ [][mstep = "nested" /\ mstep' # "nested" =>
            LET keys == <<"delivery", "meta", "data">>
                hits == C27_NestedHits(delivery, keys, DeliveryIdKeys)
            IN  /\ delivery_id = Null
                /\ IF hits = {}
                   THEN delivery_id' = Null /\ mstep' = "skipped"
                   ELSE LET i == CHOOSE i \in hits : \A j \in hits : i <= j IN
                        /\ delivery_id' =
                                C27_FirstPresent(delivery[keys[i]].items, DeliveryIdKeys)
                        /\ mstep' = "files"
                /\ delivery = ("meta" :> Dict("id" :> Str("X"))) => delivery_id' = Str("X")]_vars
    /\ [][mstep = "file_nested" /\ mstep' # "file_nested" =>
            /\ C27_FirstPresent(fobj, FileIdKeys) = Null
            /\ file_id' = Null <=> C27_NestedHits(fobj, <<"file", "data", "meta">>, FileIdKeys) = {}
            /\ file_id' = Null => requested' = requested /\ mstep' \in {"file", "end"}]_vars
    /\ [][mstep = "name" /\ mstep' # "name" =>
            /\ DOMAIN fobj \cap {"name", "fileName", "filename", "originalName"} = {} =>
                    name' = Str("download.bin")
            /\ name' # Str("download.bin") => name' = C27_FirstPresent(fobj, FileNameKeys)]_vars
    /\ [](/\ mstep \in {"skipped", "nofiles"} => requested = <<>>
          /\ mstep = "skipped" => delivery_id = Null
          /\ \A i \in DOMAIN requested :
                requested[i].delivery_id # Null /\ requested[i].file_id # Null)

C27_Witness ==
    /\ mstep = "end"
    /\ delivery_id = Str("X")
    /\ Len(file_list) = 3
    /\ Len(requested) = 2
    /\ requested[1].name = Str("download.bin")


\* C28: when the fetch inside refresh_token fails, _token keeps its value, no
\* credential was issued and _token_lock is free again; the task sleeps its
\* backoff with its header and its attempt number unchanged; after the sleep
\* the attempt is spent (the next one begins, or the call returns `failed`
\* after the 7th), and the header stays the same up to the next GET.
C28_FailedRefresh ==
    /\ [][\A t \in Tasks : pc[t] = "refresh_fetch" /\ pc'[t] # "retok" /\ pc'[t] # pc[t] =>
            /\ pc'[t] = "sleep"
            /\ token' = token /\ issued' = issued
            /\ token_lock = t /\ token_lock' = NoOne
            /\ hdr'[t] = hdr[t] /\ attempt'[t] = attempt[t] /\ gets'[t] = attempt[t]
            /\ sleep_s'[t].span.lo >= 1]_vars
    /\ [][\A t \in Tasks : pc[t] = "sleep" /\ pc'[t] # "sleep" =>
            /\ hdr'[t] = hdr[t]
            /\ IF attempt[t] < 7
               THEN pc'[t] = "wait" /\ attempt'[t] = attempt[t] + 1
               ELSE pc'[t] = "done" /\ result'[t] = Failed(http_status[t])]_vars
    /\ [][\A t \in Tasks : pc[t] \in {"wait", "pace"} /\ pc'[t] # "new" => hdr'[t] = hdr[t]]_vars

C28_Witness ==
    \E t \in InList :
        /\ pc[t] = "get" /\ attempt[t] = 2
        /\ gets[t] = 1 /\ refreshes[t] = 1 /\ refreshed_at[t] = 1
        /\ resp[t].status = 401
        /\ hdr[t] = 1 /\ token = 1 /\ issued = 1


\* The worker of t is inside a call that takes a lock: wait(),
\* get_token_cached() or refresh_token().
C29_InCall(t) == pc[t] \in {"wait", "pace", "tok", "tok_fetch", "refresh", "refresh_fetch", "retok"}

\* C29: no worker holds the rate limiter's lock and the token lock together,
\* and the main thread, the only caller of append_log, takes neither of them; a
\* lock is held only inside its critical section, so it is free on every path
\* out, a failed credential fetch included; run_bulk has a step to take until
\* it has ended, every call of wait(), get_token_cached() and refresh_token()
\* returns (or raises), and run_bulk ends.
C29_NoDeadlock ==
    /\ [](\A t \in Tasks :
            /\ ~(rl_lock = t /\ token_lock = t)
            /\ rl_lock = t => pc[t] = "pace"
            /\ token_lock = t => pc[t] \in {"tok_fetch", "refresh_fetch"})
    /\ [][Len(log') > Len(log) =>
            rl_lock' = rl_lock /\ token_lock' = token_lock /\ pc' = pc]_vars
    /\ [](mpc \notin {"done", "crashed"} => ENABLED Next)
    /\ \A t \in Tasks : C29_InCall(t) ~> ~C29_InCall(t)
    /\ <>(mpc \in {"done", "crashed"})

C29_Witness ==
    \E t, u \in InList :
        /\ pc[t] = "tok_fetch" /\ token_lock = t
        /\ pc[u] = "tok" /\ ~ENABLED Worker(u)
        /\ token = None /\ rl_lock = NoOne

====
